---- MODULE Spec2Model ----
(***************************************************************************)
(* A model of visage's orchestrator, Config.Check (src/visage.go 408-470), *)
(* of the task goroutine it starts per story (428-448) and of the capture  *)
(* session Story.Check (98-171) that each task runs.                       *)
(*                                                                         *)
(* The main goroutine and every task goroutine are processes with a        *)
(* program counter; one action is one statement (or one chromedp task of   *)
(* the chromedp.Run list).  The browser, the file system, the clock of the *)
(* per-task deadline and the caller's cancel of the run context are the    *)
(* environment.                                                            *)
(***************************************************************************)
EXTENDS Integers, Sequences, FiniteSets, TLC

\* Bounds of the model.
MaxStories == 2    \* the project tree holds 0..MaxStories stories
MaxPool == 2       \* max_threads is drawn from -1..MaxPool
MaxDepth == 2      \* directories above the one file of a tree of one file
MaxFiles == 2      \* files of a tree of several files
MaxMatches == 2    \* story declarations in one file

\* chromedp.Run's task list has 7 entries (src/visage.go 128-134).
NumSteps == 7

VARIABLES
    tree,          \* the project on disk: [unreadable, manifest, n]
    baseline,      \* the baseline store on disk: story -> <<>> or <<fingerprint>>
    maxThreads,    \* Config.MaxThreads
    baseURLok,     \* whether url.Parse accepts Config.BaseURL
    runCancelled,  \* whether the context passed to Config.Check is cancelled
    mainpc,        \* position of Config.Check
    stories,       \* the local `stories` of Config.Check
    spawnIdx,      \* position of the range loop over stories (1-based)
    wg,            \* the sync.WaitGroup counter
    sem,           \* number of elements in the channel `sem`
    results,       \* content of the channel `results`
    errors,        \* content of the channel `errors`
    closed,        \* whether results and errors have been closed
    ret,           \* what Config.Check returned
    pc,            \* position of each task goroutine
    expired,       \* whether the task's 30 s deadline has passed
    step,          \* index of the next chromedp task inside chromedp.Run
    cap,           \* the locals screenshot, html, style of Story.Check
    res,           \* the task's locals `result, err`
    liveAlloc,     \* tasks whose exec allocator exists and is not cancelled
    liveCtx,       \* tasks whose browser context exists and is not cancelled
    captures,      \* story -> number of Story.Check calls started on it
    dTree,         \* GetAllStories: the tree under `path`: [walkErr, files]
    dpc,           \* GetAllStories: position ("off" while it is not modelled)
    dPaths,        \* GetAllStories: the local `paths`
    dIdx,          \* GetAllStories: position of the range loop over paths
    dStories,      \* GetAllStories: the local `stories`
    dRet           \* GetAllStories: what it returned

discVars == <<dTree, dpc, dPaths, dIdx, dStories, dRet>>
envVars == <<tree, baseline, maxThreads, baseURLok, discVars>>
mainVars == <<mainpc, stories, spawnIdx, ret, closed>>
chanVars == <<results, errors>>
taskVars == <<pc, expired, step, cap, res, liveAlloc, liveCtx, captures>>
vars == <<envVars, runCancelled, mainVars, wg, sem, chanVars, taskVars>>

Tasks == 1..MaxStories

----------------------------------------------------------------------------
\* Values

ORGANISM_TYPE_DRAFT == "draft"
ORGANISM_TYPE_FOUNDATION == "foundation"
ORGANISM_TYPE_ATOM == "atom"
ORGANISM_TYPE_MOLECULE == "molecule"
ORGANISM_TYPE_ORGANISM == "organism"
ORGANISM_TYPE_TEMPLATE == "template"
ORGANISM_TYPE_PAGE == "page"

REGRESSION_TEST_STATUS_CREATED == "created"
REGRESSION_TEST_STATUS_FAILED == "failed"
REGRESSION_TEST_STATUS_PASSED == "passed"
REGRESSION_TEST_STATUS_SKIPPED == "skipped"

\* What the browser renders for story s: the environment's answer to the
\* screenshot and to the two queries.
Render(s) ==
    [screenshot |-> <<"png", s>>, html |-> <<"html", s>>, style |-> <<"css", s>>]

NoCapture == [screenshot |-> <<>>, html |-> <<>>, style |-> <<>>]

\* The three hashes: distinct inputs of the model hash to distinct values.
Blockhash(png) == <<"blockhash16", png>>
SHA1(text) == <<"sha1", text>>
MD5(text) == <<"md5", text>>

\* The RegressionTest literal of Story.Check.
RegressionTest(s, c) ==
    [Component |-> s, Viewport |-> "full", DomHash |-> MD5(c.html),
     StyleHash |-> SHA1(c.style), VisualHash |-> Blockhash(c.screenshot),
     TimeStamp |-> 0]

\* The RegressionTestResult literal of Story.Check, with a baseline that
\* differs from the current test (the slip of building it from another value).
NewResultStaleExpected(test) ==
    [Status |-> REGRESSION_TEST_STATUS_CREATED, CurrentTest |-> test,
     ExpectedTest |-> [test EXCEPT !.StyleHash = SHA1(<<>>)]]

\* The RegressionTestResult literal of Story.Check.
NewResult(test) ==
    [Status |-> REGRESSION_TEST_STATUS_CREATED, CurrentTest |-> test,
     ExpectedTest |-> test]

NoRes == [kind |-> "none", result |-> <<>>, err |-> <<>>]
OkRes(r) == [kind |-> "ok", result |-> <<r>>, err |-> <<>>]
ErrRes(s, what) == [kind |-> "err", result |-> <<>>, err |-> <<[story |-> s, what |-> what]>>]

NoRet == [kind |-> "none", results |-> <<>>, errs |-> <<>>, msg |-> ""]

\* The baseline store the model starts from: story 1 has no baseline, story 2
\* has a baseline equal to what is rendered now, story 3 has one whose
\* stylesheet text has changed since, and so on in turn.
StoredBaseline(s) ==
    CASE s % 3 = 1 -> <<>>
      [] s % 3 = 2 -> <<RegressionTest(s, Render(s))>>
      [] OTHER -> <<[RegressionTest(s, Render(s)) EXCEPT !.StyleHash = SHA1(<<"css-old", s>>)]>>

----------------------------------------------------------------------------
\* Discovery, as far as Config.Check depends on it

\* GetAllStories: an unreadable file fails the call, else one story per match.
GetAllStories(t) ==
    IF t.unreadable
    THEN [err |-> TRUE, stories |-> <<>>]
    ELSE [err |-> FALSE, stories |-> [k \in 1..t.n |-> k]]

\* FileExists(filepath.Join(path, "package.json"))
FileExists(t) == t.manifest

----------------------------------------------------------------------------
\* GetAllStories, statement by statement
\*
\* A path is the sequence of its segments and a segment the sequence of its
\* dot-separated parts: project/10-atoms/Button.stories.tsx under the root is
\* << <<"10-atoms">>, <<"Button", "stories", "tsx">> >>.

\* The tokens the code looks for that occur as substrings of one part of a
\* segment: the part itself, and "temp" inside "40-templates".
Within(part) == IF part = "40-templates" THEN {part, "temp"} ELSE {part}

\* strings.Contains(p, token), for the tokens the code looks for.
Contains(p, token) ==
    \E k \in 1..Len(p) : \E j \in 1..Len(p[k]) : token \in Within(p[k][j])

\* The built-in ignore list of GetIgnoreFiles, as far as the paths of the
\* model can contain its entries; no .gitignore adds to it.
IgnoreFiles == {"node_modules", "temp"}

\* WalkDir leaves out every file whose path contains an ignore entry, and
\* every file under a directory whose path does.
Ignored(p) == \E token \in IgnoreFiles : Contains(p, token)

\* The non-ignored files of a sequence of files, in walk order.
RECURSIVE WalkDir(_)
WalkDir(fs) ==
    IF fs = <<>> THEN <<>>
    ELSE IF Ignored(Head(fs).path) THEN WalkDir(Tail(fs))
    ELSE <<Head(fs)>> \o WalkDir(Tail(fs))

\* componentName: parts := strings.Split(p, "/"); lastPart := parts[len-1];
\* fileParts := strings.Split(lastPart, "."); componentName = fileParts[0]
ComponentName(p) == p[Len(p)][1]

\* The if/else chain with the atoms marker tested before the foundations one.
OrganismTypeAtomsFirst(p) ==
    IF Contains(p, "99-drafts") THEN ORGANISM_TYPE_DRAFT
    ELSE IF Contains(p, "10-atoms") THEN ORGANISM_TYPE_ATOM
    ELSE IF Contains(p, "00-foundations") THEN ORGANISM_TYPE_FOUNDATION
    ELSE IF Contains(p, "20-molecules") THEN ORGANISM_TYPE_MOLECULE
    ELSE IF Contains(p, "30-organisms") THEN ORGANISM_TYPE_ORGANISM
    ELSE IF Contains(p, "40-templates") THEN ORGANISM_TYPE_TEMPLATE
    ELSE IF Contains(p, "50-pages") THEN ORGANISM_TYPE_PAGE
    ELSE ORGANISM_TYPE_DRAFT

\* The if/else chain that sets organismType.
OrganismType(p) ==
    IF Contains(p, "99-drafts") THEN ORGANISM_TYPE_DRAFT
    ELSE IF Contains(p, "00-foundations") THEN ORGANISM_TYPE_FOUNDATION
    ELSE IF Contains(p, "10-atoms") THEN ORGANISM_TYPE_ATOM
    ELSE IF Contains(p, "20-molecules") THEN ORGANISM_TYPE_MOLECULE
    ELSE IF Contains(p, "30-organisms") THEN ORGANISM_TYPE_ORGANISM
    ELSE IF Contains(p, "40-templates") THEN ORGANISM_TYPE_TEMPLATE
    ELSE IF Contains(p, "50-pages") THEN ORGANISM_TYPE_PAGE
    ELSE ORGANISM_TYPE_DRAFT

\* The stories of one file: one Story literal per match of the pattern.
StoriesOfFile(f) ==
    [k \in 1..f.matches |->
       [Name |-> k, Path |-> f.path, ComponentName |-> ComponentName(f.path),
        OrganismType |-> OrganismType(f.path)]]

NoDiscRet == [kind |-> "none", stories |-> <<>>]

\* A failed read that hands back the stories found so far.
ReadFailedPartial(found) == [kind |-> "err", stories |-> found]

\* content, err := ReadFileToString(p); if err != nil { return nil, err }
ReadFailed(found) == [kind |-> "err", stories |-> <<>>]

\* ignores, err := GetIgnoreFiles(path); paths, err := WalkDir(path, ignores);
\* either error returns nil, err.
DiscWalk ==
    /\ dpc = "walk"
    /\ IF dTree.walkErr
       THEN /\ dRet' = [kind |-> "err", stories |-> <<>>]
            /\ dpc' = "returned"
            /\ UNCHANGED dPaths
       ELSE /\ dPaths' = WalkDir(dTree.files)
            /\ dpc' = "loop"
            /\ UNCHANGED dRet
    /\ UNCHANGED <<dTree, dIdx, dStories>>
    /\ UNCHANGED <<tree, baseline, maxThreads, baseURLok, runCancelled, mainVars, wg, sem,
                   chanVars, taskVars>>

\* One iteration of `for _, p := range paths`: the read, the matches, the
\* component name and one appended story per match.
DiscFile ==
    /\ dpc = "loop"
    /\ dIdx <= Len(dPaths)
    /\ IF ~dPaths[dIdx].readable
       THEN /\ dRet' = ReadFailed(dStories)
            /\ dpc' = "returned"
            /\ UNCHANGED <<dIdx, dStories>>
       ELSE /\ dStories' = dStories \o StoriesOfFile(dPaths[dIdx])
            /\ dIdx' = dIdx + 1
            /\ UNCHANGED <<dRet, dpc>>
    /\ UNCHANGED <<dTree, dPaths>>
    /\ UNCHANGED <<tree, baseline, maxThreads, baseURLok, runCancelled, mainVars, wg, sem,
                   chanVars, taskVars>>

\* return stories, nil
DiscReturn ==
    /\ dpc = "loop"
    /\ dIdx > Len(dPaths)
    /\ dRet' = [kind |-> "ok", stories |-> dStories]
    /\ dpc' = "returned"
    /\ UNCHANGED <<dTree, dPaths, dIdx, dStories>>
    /\ UNCHANGED <<tree, baseline, maxThreads, baseURLok, runCancelled, mainVars, wg, sem,
                   chanVars, taskVars>>

\* The directory names the model builds paths from: the seven markers and
\* one that is none.
DirNames == {"99-drafts", "00-foundations", "10-atoms", "20-molecules", "30-organisms",
             "40-templates", "50-pages", "src"}

StoryFile == <<"Button", "stories", "tsx">>

\* Sequences over S of length lo..hi.
SeqsOf(S, lo, hi) == UNION {[1..n -> S] : n \in lo..hi}

\* Trees of one readable file with one story, under any directories.
CategoryTrees ==
    {[walkErr |-> FALSE,
      files |-> <<[path |-> [k \in 1..Len(d) |-> <<d[k]>>] \o <<StoryFile>>,
                   readable |-> TRUE, matches |-> 1]>>] :
       d \in SeqsOf(DirNames, 0, MaxDepth)}

\* The places of the files of a tree of several files.
SamplePaths == { << <<"10-atoms">>, StoryFile >>, << <<"src">>, StoryFile >>,
                 << <<"node_modules">>, <<"lib", "stories", "tsx">> >> }

\* Trees of up to MaxFiles files, each readable or not, with any number of
\* stories; the walk itself may fail.
FileTrees ==
    [walkErr : BOOLEAN,
     files : SeqsOf([path : SamplePaths, readable : BOOLEAN, matches : 0..MaxMatches],
                    0, MaxFiles)]

\* The locals of Config.Check and of its tasks before its first statement.
InitLocals ==
    /\ baseline = [s \in Tasks |-> StoredBaseline(s)]
    /\ runCancelled = FALSE
    /\ stories = <<>>
    /\ spawnIdx = 1
    /\ wg = 0
    /\ sem = 0
    /\ results = <<>>
    /\ errors = <<>>
    /\ closed = FALSE
    /\ ret = NoRet
    /\ pc = [i \in Tasks |-> "idle"]
    /\ expired = [i \in Tasks |-> FALSE]
    /\ step = [i \in Tasks |-> 0]
    /\ cap = [i \in Tasks |-> NoCapture]
    /\ res = [i \in Tasks |-> NoRes]
    /\ liveAlloc = {}
    /\ liveCtx = {}
    /\ captures = [s \in Tasks |-> 0]

\* GetAllStories alone, about to run on some tree.
InitDiscovery ==
    /\ dTree \in CategoryTrees \cup FileTrees
    /\ dpc = "walk"
    /\ dPaths = <<>>
    /\ dIdx = 1
    /\ dStories = <<>>
    /\ dRet = NoDiscRet
    /\ tree = [unreadable |-> FALSE, manifest |-> TRUE, n |-> 0]
    /\ maxThreads = 0
    /\ baseURLok = TRUE
    /\ mainpc = "off"
    /\ InitLocals

NextDiscovery ==
    \/ DiscWalk
    \/ DiscFile
    \/ DiscReturn

SpecDiscovery == InitDiscovery /\ [][NextDiscovery]_vars

----------------------------------------------------------------------------
\* Initial states: Config.Check is about to run on some project with some
\* configuration; no goroutine exists yet.

\* GetAllStories is taken by its outcome (tree.unreadable, tree.n).
DiscoveryOff ==
    /\ dTree = [walkErr |-> FALSE, files |-> <<>>]
    /\ dpc = "off"
    /\ dPaths = <<>>
    /\ dIdx = 1
    /\ dStories = <<>>
    /\ dRet = NoDiscRet

Init ==
    /\ tree \in [unreadable : BOOLEAN, manifest : BOOLEAN, n : 0..MaxStories]
    /\ maxThreads \in -1..MaxPool
    /\ baseURLok \in BOOLEAN
    /\ mainpc = "discover"
    /\ InitLocals
    /\ DiscoveryOff

----------------------------------------------------------------------------
\* Config.Check, the main goroutine

\* stories, err := GetAllStories(path); if err != nil { return nil, err }
Discover ==
    /\ mainpc = "discover"
    /\ LET r == GetAllStories(tree) IN
         IF r.err
         THEN /\ ret' = [NoRet EXCEPT !.kind = "error", !.msg = "discovery"]
              /\ mainpc' = "returned"
              /\ UNCHANGED stories
         ELSE /\ stories' = r.stories
              /\ mainpc' = "manifest"
              /\ UNCHANGED ret
    /\ UNCHANGED <<envVars, runCancelled, spawnIdx, closed, wg, sem, chanVars, taskVars>>

\* The guard of `if !FileExists(packageJsonPath)`, always false: the check
\* left out.
ManifestMissingNever == FALSE

\* The guard of `if !FileExists(packageJsonPath)`.
ManifestMissing == ~FileExists(tree)

\* if !FileExists(packageJsonPath) { return nil, fmt.Errorf(...) }
CheckManifest ==
    /\ mainpc = "manifest"
    /\ IF ManifestMissing
       THEN /\ ret' = [NoRet EXCEPT !.kind = "error", !.msg = "package.json not found"]
            /\ mainpc' = "returned"
       ELSE /\ mainpc' = "make"
            /\ UNCHANGED ret
    /\ UNCHANGED <<envVars, runCancelled, stories, spawnIdx, closed, wg, sem, chanVars, taskVars>>

\* var wg; sem := make(chan struct{}, c.MaxThreads); results, errors :=
\* make(chan, len(stories)).  make panics on a negative size.
MakeChans ==
    /\ mainpc = "make"
    /\ mainpc' = IF maxThreads < 0 THEN "panic" ELSE "spawn"
    /\ UNCHANGED <<envVars, runCancelled, stories, spawnIdx, ret, closed, wg, sem, chanVars, taskVars>>

\* One iteration of `for _, story := range stories`: wg.Add(1) and the go
\* statement; the new goroutine stands before `sem <- struct{}{}`.
Spawn ==
    /\ mainpc = "spawn"
    /\ spawnIdx <= Len(stories)
    /\ wg' = wg + 1
    /\ pc' = [pc EXCEPT ![spawnIdx] = "acquire"]
    /\ spawnIdx' = spawnIdx + 1
    /\ UNCHANGED <<envVars, runCancelled, mainpc, stories, ret, closed, sem, chanVars,
                   expired, step, cap, res, liveAlloc, liveCtx, captures>>

\* The range loop ends.
LoopExit ==
    /\ mainpc = "spawn"
    /\ spawnIdx > Len(stories)
    /\ mainpc' = "wait"
    /\ UNCHANGED <<envVars, runCancelled, stories, spawnIdx, ret, closed, wg, sem, chanVars, taskVars>>

\* wg.Wait() returning at once, whatever the counter.
WaitGroupIgnored == TRUE

\* wg.Wait() returns when the counter is zero.
WaitGroupZero == wg = 0

Wait ==
    /\ mainpc = "wait"
    /\ WaitGroupZero
    /\ mainpc' = "close"
    /\ UNCHANGED <<envVars, runCancelled, stories, spawnIdx, ret, closed, wg, sem, chanVars, taskVars>>

\* close(results); close(errors)
CloseChans ==
    /\ mainpc = "close"
    /\ closed' = TRUE
    /\ mainpc' = "collect"
    /\ UNCHANGED <<envVars, runCancelled, stories, spawnIdx, ret, wg, sem, chanVars, taskVars>>

\* The tail of Config.Check taking a run without results for a failure.
AggregateReturnEmptyIsError(rs, es) ==
    IF Len(es) > 0 \/ Len(rs) = 0
    THEN [kind |-> "error", results |-> <<>>, errs |-> es,
          msg |-> "errors occurred during regression test"]
    ELSE [kind |-> "results", results |-> rs, errs |-> <<>>, msg |-> ""]

\* The tail of Config.Check returning the successes beside a first error only.
AggregateReturnFirstError(rs, es) ==
    IF Len(es) > 0
    THEN [kind |-> "error", results |-> rs, errs |-> <<Head(es)>>,
          msg |-> "errors occurred during regression test"]
    ELSE [kind |-> "results", results |-> rs, errs |-> <<>>, msg |-> ""]

\* The tail of Config.Check: with the drained results rs and errors es,
\* `if len(regressionTestErrors) > 0 { return nil, fmt.Errorf("...: %v", es) }
\*  return regressionTestResults, nil`.
AggregateReturn(rs, es) ==
    IF Len(es) > 0
    THEN [kind |-> "error", results |-> <<>>, errs |-> es,
          msg |-> "errors occurred during regression test"]
    ELSE [kind |-> "results", results |-> rs, errs |-> <<>>, msg |-> ""]

\* The two range loops over the closed channels drain them in order; then
\* the return.
Collect ==
    /\ mainpc = "collect"
    /\ closed
    /\ ret' = AggregateReturn(results, errors)
    /\ results' = <<>>
    /\ errors' = <<>>
    /\ mainpc' = "returned"
    /\ UNCHANGED <<envVars, runCancelled, stories, spawnIdx, closed, wg, sem, taskVars>>

\* The caller cancels the context it passed to Config.Check while the call
\* runs.  No statement of Config.Check or of a task reads that context.
CancelRun ==
    /\ ~runCancelled
    /\ mainpc \notin {"returned", "panic"}
    /\ runCancelled' = TRUE
    /\ UNCHANGED <<envVars, mainVars, wg, sem, chanVars, taskVars>>

----------------------------------------------------------------------------
\* The task goroutine `go func(story *Story) {...}(&story)` of iteration i

\* The story the goroutine of iteration i works on, were `story` one variable
\* shared by all iterations: the goroutines then see the last element.
TaskStoryShared(i) == stories[Len(stories)]

\* The story the goroutine of iteration i works on: `story` is a variable of
\* its own in every iteration, and the goroutine gets its address.
TaskStory(i) == stories[i]

\* A channel that keeps one slot of its buffer unused.
SemHasRoomOneLess == sem < maxThreads - 1

\* A send on `sem` that goes through with the buffer already full.
SemHasRoomOffByOne == sem <= maxThreads

\* `sem <- struct{}{}` goes through when the buffer of capacity c.MaxThreads
\* is not full.  (With capacity 0 a send needs a goroutine standing at
\* `<-sem`, and a goroutine gets there only after its own send.)
SemHasRoom == sem < maxThreads

\* sem <- struct{}{}
Acquire(i) ==
    /\ pc[i] = "acquire"
    /\ SemHasRoom
    /\ sem' = sem + 1
    /\ pc' = [pc EXCEPT ![i] = "alloc"]
    /\ UNCHANGED <<envVars, runCancelled, mainVars, wg, chanVars,
                   expired, step, cap, res, liveAlloc, liveCtx, captures>>

\* allocCtx, cancel := chromedp.NewExecAllocator(context.Background(), ...)
NewExecAllocator(i) ==
    /\ pc[i] = "alloc"
    /\ liveAlloc' = liveAlloc \cup {i}
    /\ pc' = [pc EXCEPT ![i] = "newctx"]
    /\ UNCHANGED <<envVars, runCancelled, mainVars, wg, sem, chanVars,
                   expired, step, cap, res, liveCtx, captures>>

\* ctx, cancelCtx := chromedp.NewContext(allocCtx)
NewContext(i) ==
    /\ pc[i] = "newctx"
    /\ liveCtx' = liveCtx \cup {i}
    /\ pc' = [pc EXCEPT ![i] = "timeout"]
    /\ UNCHANGED <<envVars, runCancelled, mainVars, wg, sem, chanVars,
                   expired, step, cap, res, liveAlloc, captures>>

\* ctx, cancelTimeout := context.WithTimeout(ctx, 30*time.Second)
WithTimeout(i) ==
    /\ pc[i] = "timeout"
    /\ pc' = [pc EXCEPT ![i] = "check"]
    /\ UNCHANGED <<envVars, runCancelled, mainVars, wg, sem, chanVars,
                   expired, step, cap, res, liveAlloc, liveCtx, captures>>

\* The 30 seconds pass while the task is in Story.Check and chromedp.Run has
\* not returned.  (The timer may also fire later, until cancelTimeout; no
\* statement reads the context then.)
DeadlineFire(i) ==
    /\ pc[i] \in {"check", "run"}
    /\ ~expired[i]
    /\ expired' = [expired EXCEPT ![i] = TRUE]
    /\ UNCHANGED <<envVars, runCancelled, mainVars, wg, sem, chanVars,
                   pc, step, cap, res, liveAlloc, liveCtx, captures>>

\* Story.Check up to chromedp.Run: u, err := url.Parse(config.BaseURL);
\* if err != nil { return nil, err }; the URL and the queries are built.
CheckBegin(i) ==
    /\ pc[i] = "check"
    /\ captures' = [captures EXCEPT ![TaskStory(i)] = @ + 1]
    /\ IF baseURLok
       THEN /\ pc' = [pc EXCEPT ![i] = "run"]
            /\ step' = [step EXCEPT ![i] = 1]
            /\ UNCHANGED res
       ELSE /\ pc' = [pc EXCEPT ![i] = "send"]
            /\ res' = [res EXCEPT ![i] = ErrRes(TaskStory(i), "url.Parse")]
            /\ UNCHANGED step
    /\ UNCHANGED <<envVars, runCancelled, mainVars, wg, sem, chanVars,
                   expired, cap, liveAlloc, liveCtx>>

\* The chromedp.Tasks list of Story.Check, in order.
StepName(k) ==
    CASE k = 1 -> "Navigate"
      [] k = 2 -> "WaitVisible"
      [] k = 3 -> "WaitReady"
      [] k = 4 -> "Sleep"
      [] k = 5 -> "Screenshot"
      [] k = 6 -> "EvaluateAsDevTools(htmlQuery)"
      [] OTHER -> "EvaluateAsDevTools(cssQuery)"

\* The list's effects with the last evaluation storing nowhere: &style is
\* left empty.
StepEffectNoStyle(k, s, c) ==
    CASE k = 5 -> [c EXCEPT !.screenshot = Render(s).screenshot]
      [] k = 6 -> [c EXCEPT !.html = Render(s).html]
      [] OTHER -> c

\* What task k of the list stores on success: Screenshot fills &screenshot,
\* the two evaluations fill &html and &style.
StepEffect(k, s, c) ==
    CASE k = 5 -> [c EXCEPT !.screenshot = Render(s).screenshot]
      [] k = 6 -> [c EXCEPT !.html = Render(s).html]
      [] k = 7 -> [c EXCEPT !.style = Render(s).style]
      [] OTHER -> c

\* A context that never reports its deadline.
CtxErrNever(i) == FALSE

\* ctx.Err() of the context Story.Check runs under: the task's WithTimeout
\* context, a child of context.Background(); only its deadline ends it.
CtxErr(i) == expired[i]

\* Task k of chromedp.Run succeeds and the list moves on; after the last
\* task Run returns nil.
StepOk(i) ==
    /\ pc[i] = "run"
    /\ ~CtxErr(i)
    /\ cap' = [cap EXCEPT ![i] = StepEffect(step[i], TaskStory(i), @)]
    /\ IF step[i] = NumSteps
       THEN /\ pc' = [pc EXCEPT ![i] = "hash"]
            /\ step' = [step EXCEPT ![i] = 0]
       ELSE /\ step' = [step EXCEPT ![i] = @ + 1]
            /\ UNCHANGED pc
    /\ UNCHANGED <<envVars, runCancelled, mainVars, wg, sem, chanVars,
                   expired, res, liveAlloc, liveCtx, captures>>

\* The tasks of the list that can fail on their own: the navigation (and the
\* browser start that the first task of a Run brings with it), the screenshot
\* and the two evaluations.  WaitVisible and WaitReady poll, and Sleep waits,
\* until they succeed or the context ends.
FallibleSteps == {1, 5, 6, 7}

\* Task k of chromedp.Run fails, with the context's error when the deadline
\* has passed and with its own otherwise; Run returns it and Story.Check
\* returns nil, err.
StepFail(i) ==
    /\ pc[i] = "run"
    /\ CtxErr(i) \/ step[i] \in FallibleSteps
    /\ res' = [res EXCEPT ![i] =
                 ErrRes(TaskStory(i),
                        IF CtxErr(i) THEN "context deadline exceeded" ELSE StepName(step[i]))]
    /\ pc' = [pc EXCEPT ![i] = "send"]
    /\ step' = [step EXCEPT ![i] = 0]
    /\ cap' = [cap EXCEPT ![i] = NoCapture]
    /\ UNCHANGED <<envVars, runCancelled, mainVars, wg, sem, chanVars,
                   expired, liveAlloc, liveCtx, captures>>

\* The rest of Story.Check: blockhash.Blockhash(reader, 16) may fail to decode
\* the screenshot (return nil, err); else the three hashes, the RegressionTest
\* and the RegressionTestResult.
Fingerprint(i) ==
    /\ pc[i] = "hash"
    /\ \E decodes \in BOOLEAN :
         res' = [res EXCEPT ![i] =
                   IF decodes
                   THEN OkRes(NewResult(RegressionTest(TaskStory(i), cap[i])))
                   ELSE ErrRes(TaskStory(i), "blockhash")]
    /\ pc' = [pc EXCEPT ![i] = "send"]
    /\ cap' = [cap EXCEPT ![i] = NoCapture]
    /\ UNCHANGED <<envVars, runCancelled, mainVars, wg, sem, chanVars,
                   expired, step, liveAlloc, liveCtx, captures>>

\* results and errors made one slot short of the number of stories.
ChanCapOneShort == Len(stories) - 1

\* The capacity of results and of errors: make(chan ..., len(stories)).
ChanCap == Len(stories)

\* if err != nil { errors <- err } else { results <- result }: a send on a
\* full channel blocks (nothing receives before wg.Wait() has returned).
Send(i) ==
    /\ pc[i] = "send"
    /\ IF res[i].kind = "err"
       THEN /\ Len(errors) < ChanCap
            /\ errors' = errors \o res[i].err
            /\ UNCHANGED results
       ELSE /\ Len(results) < ChanCap
            /\ results' = results \o res[i].result
            /\ UNCHANGED errors
    /\ pc' = [pc EXCEPT ![i] = "release"]
    /\ UNCHANGED <<envVars, runCancelled, mainVars, wg, sem,
                   expired, step, cap, res, liveAlloc, liveCtx, captures>>

\* `<-sem` placed in the success branch only: a failed task keeps its permit.
ReleaseOnSuccessOnly(i) ==
    /\ pc[i] = "release"
    /\ sem > 0
    /\ sem' = IF res[i].kind = "ok" THEN sem - 1 ELSE sem
    /\ pc' = [pc EXCEPT ![i] = "cancelTimeout"]
    /\ UNCHANGED <<envVars, runCancelled, mainVars, wg, chanVars,
                   expired, step, cap, res, liveAlloc, liveCtx, captures>>

\* <-sem
Release(i) ==
    /\ pc[i] = "release"
    /\ sem > 0
    /\ sem' = sem - 1
    /\ pc' = [pc EXCEPT ![i] = "cancelTimeout"]
    /\ UNCHANGED <<envVars, runCancelled, mainVars, wg, chanVars,
                   expired, step, cap, res, liveAlloc, liveCtx, captures>>

\* The deferred calls run in reverse order once the function body is left.
\* defer cancelTimeout()
CancelTimeout(i) ==
    /\ pc[i] = "cancelTimeout"
    /\ pc' = [pc EXCEPT ![i] = "cancelCtx"]
    /\ UNCHANGED <<envVars, runCancelled, mainVars, wg, sem, chanVars,
                   expired, step, cap, res, liveAlloc, liveCtx, captures>>

\* The deferred cancelCtx() left out: the browser context stays.
CancelCtxForgotten(i) ==
    /\ pc[i] = "cancelCtx"
    /\ pc' = [pc EXCEPT ![i] = "cancel"]
    /\ UNCHANGED <<envVars, runCancelled, mainVars, wg, sem, chanVars,
                   expired, step, cap, res, liveAlloc, liveCtx, captures>>

\* defer cancelCtx(): the browser context is torn down
CancelCtx(i) ==
    /\ pc[i] = "cancelCtx"
    /\ liveCtx' = liveCtx \ {i}
    /\ pc' = [pc EXCEPT ![i] = "cancel"]
    /\ UNCHANGED <<envVars, runCancelled, mainVars, wg, sem, chanVars,
                   expired, step, cap, res, liveAlloc, captures>>

\* defer cancel(): the allocator is torn down
CancelAlloc(i) ==
    /\ pc[i] = "cancel"
    /\ liveAlloc' = liveAlloc \ {i}
    /\ pc' = [pc EXCEPT ![i] = "wgDone"]
    /\ UNCHANGED <<envVars, runCancelled, mainVars, wg, sem, chanVars,
                   expired, step, cap, res, liveCtx, captures>>

\* defer wg.Done()
WgDone(i) ==
    /\ pc[i] = "wgDone"
    /\ wg' = wg - 1
    /\ pc' = [pc EXCEPT ![i] = "done"]
    /\ UNCHANGED <<envVars, runCancelled, mainVars, sem, chanVars,
                   expired, step, cap, res, liveAlloc, liveCtx, captures>>

TaskStep(i) ==
    \/ Acquire(i)
    \/ NewExecAllocator(i)
    \/ NewContext(i)
    \/ WithTimeout(i)
    \/ CheckBegin(i)
    \/ StepOk(i)
    \/ StepFail(i)
    \/ Fingerprint(i)
    \/ Send(i)
    \/ Release(i)
    \/ CancelTimeout(i)
    \/ CancelCtx(i)
    \/ CancelAlloc(i)
    \/ WgDone(i)

MainStep ==
    \/ Discover
    \/ CheckManifest
    \/ MakeChans
    \/ Spawn
    \/ LoopExit
    \/ Wait
    \/ CloseChans
    \/ Collect

\* The program as main runs it: the context main passes to Config.Check is
\* cancelled only by main's deferred cancel, after Config.Check has returned.
Next ==
    \/ MainStep
    \/ \E i \in Tasks : TaskStep(i)
    \/ \E i \in Tasks : DeadlineFire(i)

Spec == Init /\ [][Next]_vars

\* Config.Check under a caller that may cancel the run context at any time.
NextCancel ==
    \/ Next
    \/ CancelRun

SpecCancel == Init /\ [][NextCancel]_vars

\* The Go scheduler runs every goroutine that can take a step, and every
\* chromedp task returns (at the latest when the deadline ends its context).
\* The deadline and the caller's cancel need not happen.
FairSpec ==
    /\ Spec
    /\ WF_vars(MainStep)
    /\ \A i \in Tasks : WF_vars(TaskStep(i))

----------------------------------------------------------------------------
\* The claims

\* Tasks that hold a permit: past `sem <- struct{}{}` and not past `<-sem`.
\* Story.Check runs at "check", "run" and "hash".
Holding == {i \in Tasks : pc[i] \in {"alloc", "newctx", "timeout", "check", "run",
                                     "hash", "send", "release"}}

Spawned == {i \in Tasks : pc[i] # "idle"}
Failed == {i \in Tasks : res[i].kind = "err"}
Succeeded == {i \in Tasks : res[i].kind = "ok"}
TimedOut == {i \in Failed : res[i].err[1].what = "context deadline exceeded"}

\* Config.Check returned from its tail, after the loop and wg.Wait().
ReturnedFromRun == mainpc = "returned" /\ ret.msg \notin {"discovery", "package.json not found"}

\* C1: with pool size C >= 1 the number of tasks between acquiring and
\* releasing the permit, which is where Story.Check runs, never exceeds C.
C1_ActiveWithinPool ==
    maxThreads >= 1 => Cardinality(Holding) <= maxThreads

\* C1's case: more stories than permits, the pool is full and a task waits.
C1_Witness ==
    /\ maxThreads >= 1
    /\ Len(stories) > maxThreads
    /\ Cardinality(Holding) = maxThreads
    /\ \E i \in Tasks : pc[i] = "acquire"
    /\ \E i \in Holding : pc[i] = "run"

\* C2: the number of browser contexts that are allocated and not yet torn
\* down never exceeds C, because the permit is released only after the
\* teardown.
C2_ContextsWithinPool ==
    maxThreads >= 1 => Cardinality(liveCtx) <= maxThreads

\* C3: Config.Check returns only after every one of the N story tasks has
\* finished; a return before the loop leaves no task behind either.
C3_ReturnAfterAllTasks ==
    /\ mainpc = "returned" => \A i \in Tasks : pc[i] \in {"idle", "done"}
    /\ ReturnedFromRun => \A i \in 1..Len(stories) : pc[i] = "done"

\* C3's case: a run of several tasks, one of them failed, has returned.
C3_Witness ==
    /\ ReturnedFromRun
    /\ Len(stories) >= 2
    /\ Failed # {}
    /\ \A i \in 1..Len(stories) : pc[i] = "done"

\* C4: if a task ended in an error, Config.Check returns the aggregate error
\* with every collected error, one per failed task, and no results.
C4_AggregateFailure ==
    (mainpc = "returned" /\ Failed # {}) =>
        /\ ret.kind = "error"
        /\ ret.results = <<>>
        /\ Len(ret.errs) = Cardinality(Failed)
        /\ \A i \in Failed : \E k \in 1..Len(ret.errs) : ret.errs[k] = res[i].err[1]

\* C4's case: a run with a success and a failure has returned.
C4_Witness ==
    /\ mainpc = "returned"
    /\ Failed # {}
    /\ Succeeded # {}
    /\ ret.kind = "error"

\* C5: when no task errors, Config.Check returns exactly N results, one for
\* each story of the catalog, each story captured exactly once.
C5_FullResultList ==
    (mainpc = "returned" /\ ret.kind = "results") =>
        /\ Len(ret.results) = Len(stories)
        /\ \A s \in Tasks :
             /\ captures[s] = (IF s <= Len(stories) THEN 1 ELSE 0)
             /\ Cardinality({k \in 1..Len(ret.results) :
                               ret.results[k].CurrentTest.Component = s})
                  = (IF s <= Len(stories) THEN 1 ELSE 0)

\* C5's case: a full result list in another order than the submission order.
C5_Witness ==
    /\ mainpc = "returned"
    /\ ret.kind = "results"
    /\ Len(ret.results) >= 2
    /\ ret.results[1].CurrentTest.Component = 2

\* C6, first part: a task whose deadline passes during chromedp.Run leaves
\* Run with the deadline's error as its error.
C6_ExpiryFailsTask ==
    \A i \in Tasks :
        (pc[i] = "run" /\ expired[i] /\ <<pc[i], step[i]>>' # <<pc[i], step[i]>>) =>
            /\ pc'[i] = "send"
            /\ res'[i] = ErrRes(TaskStory(i), "context deadline exceeded")

\* C6, second part: the expiry of one task's deadline changes nothing of any
\* other task.
C6_ExpiryIsLocal ==
    \A i \in Tasks :
        (~expired[i] /\ expired'[i]) =>
            \A j \in Tasks \ {i} :
                /\ pc'[j] = pc[j]
                /\ res'[j] = res[j]
                /\ expired'[j] = expired[j]
                /\ (j \in liveCtx') = (j \in liveCtx)

\* C6, third part: a task whose deadline has passed during chromedp.Run is
\* never blocked before it has finished: its error fits in `errors`, its
\* permit is there to be taken back, its deferred calls run.
C6_TimedOutNeverBlocked ==
    \A i \in Tasks :
        (((pc[i] = "run" /\ expired[i]) \/ i \in TimedOut) /\ pc[i] # "done") =>
            ENABLED TaskStep(i)

\* C6, fourth part: after a timeout the run is never stuck before
\* Config.Check has returned.  Every step advances a program counter, so a
\* run that is never stuck returns.
C6_RunGoesOn ==
    (TimedOut # {} /\ mainpc # "returned") => ENABLED Next

\* C6: a task whose capture exceeds its deadline is recorded as an error of
\* that task, no other task is touched by the expiry, and the task finishes
\* and the run returns.
C6_DeadlineIsLocalError ==
    /\ [](C6_TimedOutNeverBlocked /\ C6_RunGoesOn)
    /\ [][C6_ExpiryFailsTask /\ C6_ExpiryIsLocal]_vars

\* C6 as progress, under the scheduler's fairness: the timed-out task
\* reaches its end with the deadline's error and Config.Check returns.
C6_TimedOutTaskFinishes ==
    /\ \A i \in Tasks : (pc[i] = "run" /\ expired[i]) ~> (pc[i] = "done" /\ i \in TimedOut)
    /\ (\E i \in Tasks : pc[i] = "run" /\ expired[i]) ~> (mainpc = "returned")

\* C6's case: one task timed out, another one succeeded, all have finished
\* and the run has returned.
C6_Witness ==
    /\ mainpc = "returned"
    /\ \E i \in TimedOut : pc[i] = "done"
    /\ Succeeded # {}

\* C7: once the run context is cancelled, no in-flight task completes a
\* further capture step: each leaves chromedp.Run with an error.
C7_CancelAbortsTasks ==
    [][runCancelled =>
         \A i \in Tasks :
             (pc[i] = "run" /\ <<pc[i], step[i]>>' # <<pc[i], step[i]>>) =>
                 (pc'[i] = "send" /\ res'[i].kind = "err")]_vars

\* The three hashes of two fingerprints agree.
SameHashes(a, b) ==
    /\ a.VisualHash = b.VisualHash
    /\ a.DomHash = b.DomHash
    /\ a.StyleHash = b.StyleHash

\* The status the comparison contract gives result r against the store.
StatusByContract(r) ==
    LET b == baseline[r.CurrentTest.Component] IN
    /\ r.Status = REGRESSION_TEST_STATUS_CREATED <=> b = <<>>
    /\ r.Status = REGRESSION_TEST_STATUS_PASSED <=>
         (b # <<>> /\ SameHashes(r.CurrentTest, b[1]))
    /\ r.Status = REGRESSION_TEST_STATUS_FAILED <=>
         (b # <<>> /\ ~SameHashes(r.CurrentTest, b[1]))

\* C8: every story result is "created" iff no baseline existed, "passed" iff
\* one existed and the three hashes equal it, "failed" iff one existed and a
\* hash differs.
C8_StatusFollowsBaseline ==
    \A i \in Succeeded : StatusByContract(res[i].result[1])

\* C9: a story captured successfully that has no baseline gets the status
\* "created" and a baseline fingerprint equal to its current fingerprint.
C9_CreatedBaselineIsCurrent ==
    /\ \A i \in Succeeded :
         LET r == res[i].result[1] IN
         baseline[r.CurrentTest.Component] = <<>> =>
             (r.Status = REGRESSION_TEST_STATUS_CREATED /\ r.ExpectedTest = r.CurrentTest)
    /\ \A k \in 1..Len(ret.results) :
         LET r == ret.results[k] IN
         baseline[r.CurrentTest.Component] = <<>> =>
             (r.Status = REGRESSION_TEST_STATUS_CREATED /\ r.ExpectedTest = r.CurrentTest)

\* C9's case: the returned list holds the result of a story without baseline,
\* with the fingerprint of what was rendered.
C9_Witness ==
    /\ mainpc = "returned"
    /\ \E k \in 1..Len(ret.results) :
         /\ baseline[ret.results[k].CurrentTest.Component] = <<>>
         /\ ret.results[k].CurrentTest = RegressionTest(1, Render(1))

\* C10: without a manifest Config.Check fails before any capture work: no
\* task is spawned, no permit taken, no allocator or browser context created.
C10_NoManifestFailsFast ==
    ~tree.manifest =>
        /\ mainpc \in {"discover", "manifest", "returned"}
        /\ mainpc = "returned" => ret.kind = "error"
        /\ Spawned = {}
        /\ wg = 0
        /\ sem = 0
        /\ liveAlloc = {} /\ liveCtx = {}
        /\ \A s \in Tasks : captures[s] = 0

\* C10's case: a readable project with stories and no manifest; the call has
\* returned the error.
C10_Witness ==
    /\ ~tree.manifest
    /\ Len(stories) >= 1
    /\ mainpc = "returned"
    /\ ret.msg = "package.json not found"

\* C11, the order: chromedp.Run starts with the first task of the list and
\* moves on by one task, only when that task has succeeded.
C11_StepsInOrder ==
    \A i \in Tasks :
        /\ (pc[i] # "run" /\ pc'[i] = "run") => step'[i] = 1
        /\ (pc[i] = "run" /\ pc'[i] = "run" /\ step'[i] # step[i]) => step'[i] = step[i] + 1
        /\ (pc[i] = "run" /\ pc'[i] = "hash") => step[i] = NumSteps

\* C11, the failure: a session that leaves chromedp.Run for its return with
\* an error returns the error of the task it stood at (or the deadline's) and
\* no result.
C11_FailureIsStepError ==
    \A i \in Tasks :
        (pc[i] = "run" /\ pc'[i] = "send") =>
            /\ res'[i].kind = "err"
            /\ res'[i].result = <<>>
            /\ res'[i].err[1].what \in {StepName(step[i]), "context deadline exceeded"}

\* C11, the state: inside chromedp.Run the screenshot is there exactly when
\* the tasks up to Screenshot have succeeded, the markup exactly when those up
\* to the first evaluation have, the style text exactly when all have; a
\* result is built from all three.
C11_AllOrNothing ==
    \A i \in Tasks :
        /\ pc[i] = "run" =>
             /\ step[i] \in 1..NumSteps
             /\ (cap[i].screenshot # <<>>) = (step[i] > 5)
             /\ (cap[i].html # <<>>) = (step[i] > 6)
             /\ cap[i].style = <<>>
        /\ pc[i] = "hash" => cap[i] = Render(TaskStory(i))
        /\ res[i].kind = "ok" =>
             /\ res[i].err = <<>>
             /\ res[i].result[1].CurrentTest =
                  RegressionTest(TaskStory(i), Render(TaskStory(i)))
        /\ res[i].kind = "err" => res[i].result = <<>>

\* C11: the seven steps of a capture session run strictly in order, each
\* after the previous one succeeded; a failing step ends the session with
\* that step's error and no result; a result is returned only when
\* screenshot, markup and style text were all obtained.
C11_SessionAllOrNothing ==
    /\ []C11_AllOrNothing
    /\ [][C11_StepsInOrder /\ C11_FailureIsStepError]_vars

\* C11's case: one session failed at the screenshot, after the navigation,
\* the waits and the pause, and another one returned its result.
C11_Witness ==
    /\ \E i \in Failed : res[i].err[1].what = "Screenshot"
    /\ Succeeded # {}

\* C12: for an empty catalog (of a project with its manifest) Config.Check
\* spawns no task and takes no permit, goes on to its return whenever the
\* pool size is not negative, and returns an empty result list and no error.
C12_EmptyCatalog ==
    (tree.manifest /\ ~tree.unreadable /\ tree.n = 0) =>
        /\ Spawned = {}
        /\ wg = 0 /\ sem = 0
        /\ results = <<>> /\ errors = <<>>
        /\ (maxThreads >= 0 /\ mainpc # "returned") => ENABLED MainStep
        /\ mainpc = "returned" =>
             (ret.kind = "results" /\ ret.results = <<>> /\ ret.errs = <<>>)

\* C12's case: the run over an empty catalog has returned.
C12_Witness ==
    /\ tree.manifest /\ ~tree.unreadable /\ tree.n = 0
    /\ stories = <<>>
    /\ mainpc = "returned"
    /\ ret.kind = "results"

\* The number of entries of story s in the two channels.
InResults(s) == Cardinality({k \in 1..Len(results) : results[k].CurrentTest.Component = s})
InErrors(s) == Cardinality({k \in 1..Len(errors) : errors[k].story = s})

\* Tasks past their send on results or errors.
Contributed == {i \in Tasks : pc[i] \in {"release", "cancelTimeout", "cancelCtx",
                                         "cancel", "wgDone", "done"}}

\* C13: until the channels are drained, a task has one entry in exactly one
\* of the two channels if it is past its send (a result if it succeeded, an
\* error if it failed) and none before; a task at its send is never blocked;
\* the entries of both channels are as many as the tasks past their capture
\* and send.
C13_OneContributionPerTask ==
    /\ \A i \in Tasks : pc[i] = "send" => ENABLED Send(i)
    /\ mainpc # "returned" =>
         /\ \A i \in Spawned :
              /\ InResults(TaskStory(i)) =
                   (IF i \in Contributed /\ res[i].kind = "ok" THEN 1 ELSE 0)
              /\ InErrors(TaskStory(i)) =
                   (IF i \in Contributed /\ res[i].kind = "err" THEN 1 ELSE 0)
         /\ Len(results) + Len(errors) = Cardinality(Contributed)
         /\ Len(results) <= ChanCap /\ Len(errors) <= ChanCap

\* C13's case: every task of a run of several has sent, some a result and
\* some an error, and the channels are about to be drained.
C13_Witness ==
    /\ mainpc = "collect"
    /\ Len(results) >= 1
    /\ Len(errors) >= 1
    /\ Len(results) + Len(errors) = Len(stories)

\* Tasks between the creation and the teardown of their allocator, and of
\* their browser context.
AllocSpan == {i \in Tasks : pc[i] \in {"newctx", "timeout", "check", "run", "hash", "send",
                                       "release", "cancelTimeout", "cancelCtx", "cancel"}}
CtxSpan == {i \in Tasks : pc[i] \in {"timeout", "check", "run", "hash", "send",
                                     "release", "cancelTimeout", "cancelCtx"}}

\* C16: every task has an allocator and a browser context of its own from
\* their creation in the task to their teardown in the task's deferred calls,
\* on the success and on the error path; a finished task has neither, and
\* when Config.Check has returned none is live.
C16_ContextsTornDown ==
    /\ liveAlloc = AllocSpan
    /\ liveCtx = CtxSpan
    /\ liveCtx \subseteq liveAlloc
    /\ \A i \in Tasks : pc[i] \in {"wgDone", "done"} => (i \notin liveCtx /\ i \notin liveAlloc)
    /\ mainpc = "returned" => (liveCtx = {} /\ liveAlloc = {})

\* C16's case: a run with a success and a failure has returned; both tasks
\* had their context and no context is left.
C16_Witness ==
    /\ mainpc = "returned"
    /\ Failed # {} /\ Succeeded # {}
    /\ \A i \in Failed : res[i].err[1].what # "url.Parse"
    /\ \A i \in 1..Len(stories) : captures[TaskStory(i)] = 1
    /\ liveCtx = {} /\ liveAlloc = {}

\* How many steps a task has left at most, by its position.
PcRank ==
    [idle |-> 22, acquire |-> 21, alloc |-> 20, newctx |-> 19, timeout |-> 18,
     check |-> 17, run |-> 16, hash |-> 8, send |-> 7, release |-> 6,
     cancelTimeout |-> 5, cancelCtx |-> 4, cancel |-> 3, wgDone |-> 2, done |-> 0]

TaskRank(i) == IF pc[i] = "run" THEN PcRank.run - step[i] ELSE PcRank[pc[i]]

\* How many steps Config.Check has left at most, by its position.
MainPcRank ==
    [discover |-> 7, manifest |-> 6, make |-> 5, spawn |-> 4, wait |-> 3,
     close |-> 2, collect |-> 1, returned |-> 0, panic |-> 0, off |-> 0]

MainRank == MainPcRank[mainpc]

RECURSIVE SumRanks(_)
SumRanks(n) ==
    IF n = 0 THEN 0
    ELSE TaskRank(n) + (IF expired[n] THEN 0 ELSE 1) + SumRanks(n - 1)

\* The steps the run has left at most, the deadlines that can still pass
\* among them.
Measure == MainRank + SumRanks(MaxStories)

\* C17, first part: with C >= 1 a task waiting for a permit can take one, or
\* a task holding one can take a step; every spawned, unfinished task that
\* is not waiting can take a step; and the run is never stuck before
\* Config.Check has returned.
C17_NeverStuck ==
    (maxThreads >= 1) =>
        /\ \A i \in Tasks :
             /\ pc[i] = "acquire" =>
                  (ENABLED Acquire(i) \/ \E j \in Holding : ENABLED TaskStep(j))
             /\ pc[i] \notin {"idle", "acquire", "done"} => ENABLED TaskStep(i)
        /\ mainpc # "returned" => ENABLED Next

\* C17, second part: every step of the run takes the measure down, so no run
\* goes on for ever.
C17_MeasureDecreases == Measure' < Measure /\ Measure' >= 0

\* C17: with C >= 1 and fair scheduling every task acquires a permit and
\* Config.Check returns: the run is never stuck and every step brings it
\* nearer to its end.
C17_RunTerminates ==
    /\ [](C17_NeverStuck)
    /\ [][C17_MeasureDecreases]_vars

\* C17 as progress, under the scheduler's fairness.
C17_EventuallyReturns ==
    /\ \A i \in Tasks : (maxThreads >= 1 /\ pc[i] = "acquire") ~> (pc[i] = "alloc")
    /\ (maxThreads >= 1) ~> (mainpc = "returned")

\* C17's case: more stories than permits, every task has had its permit and
\* finished, and Config.Check has returned.
C17_Witness ==
    /\ maxThreads >= 1
    /\ Len(stories) > maxThreads
    /\ ReturnedFromRun
    /\ \A i \in 1..Len(stories) : pc[i] = "done" /\ captures[TaskStory(i)] = 1

\* The run of C18: the pool has size 0 and the loop of Config.Check is
\* reached with at least one story.
ZeroPoolRun == maxThreads = 0 /\ tree.manifest /\ ~tree.unreadable /\ tree.n >= 1

\* C18: with pool size 0 and at least one story no task ever acquires a
\* permit, no capture starts and Config.Check does not return; once all tasks
\* are spawned every task is blocked at the semaphore and Config.Check at
\* wg.Wait(), and nothing can take a step.
C18_ZeroPoolDeadlocks ==
    ZeroPoolRun =>
        /\ mainpc \notin {"close", "collect", "returned"}
        /\ \A i \in Tasks : pc[i] \in {"idle", "acquire"} /\ captures[i] = 0
        /\ \A i \in Tasks : ~ENABLED TaskStep(i)
        /\ sem = 0 /\ liveCtx = {} /\ liveAlloc = {}
        /\ mainpc = "wait" =>
             /\ wg = Len(stories)
             /\ \A i \in 1..Len(stories) : pc[i] = "acquire"
             /\ ~ENABLED Next

\* C18's case: all tasks stand at the semaphore and Config.Check at wg.Wait().
C18_Witness ==
    /\ ZeroPoolRun
    /\ mainpc = "wait"
    /\ wg = Len(stories)
    /\ \A i \in 1..Len(stories) : pc[i] = "acquire"

\* C19: the permits out are as many as the tasks between their acquire and
\* their release, a task past its release has contributed its result or its
\* error, and when Config.Check has returned no permit is out.
C19_PermitsMatchHolders ==
    /\ sem = Cardinality(Holding)
    /\ \A i \in Tasks : pc[i] = "release" => ENABLED Release(i)
    /\ Contributed \subseteq (Failed \cup Succeeded)
    /\ mainpc # "returned" =>
         \A i \in Contributed : InResults(TaskStory(i)) + InErrors(TaskStory(i)) = 1
    /\ mainpc = "returned" => sem = 0

\* C19's case: a failed and a succeeded task have both given their permit
\* back and the run has returned.
C19_Witness ==
    /\ mainpc = "returned"
    /\ sem = 0
    /\ \E i \in Failed : pc[i] = "done"
    /\ \E i \in Succeeded : pc[i] = "done"
    /\ maxThreads = 1

----------------------------------------------------------------------------
\* C14: category inference

\* The priority order of the markers and the category bound to each.
MarkerTable ==
    << <<"99-drafts", "draft">>, <<"00-foundations", "foundation">>, <<"10-atoms", "atom">>,
       <<"20-molecules", "molecule">>, <<"30-organisms", "organism">>,
       <<"40-templates", "template">>, <<"50-pages", "page">> >>

MarkersIn(p) == {m \in 1..Len(MarkerTable) : Contains(p, MarkerTable[m][1])}

CategoryByFirstMarker(p) ==
    IF MarkersIn(p) = {} THEN "draft"
    ELSE MarkerTable[CHOOSE m \in MarkersIn(p) : \A n \in MarkersIn(p) : m <= n][2]

CategoryAsSpecified(s) ==
    /\ s.OrganismType = CategoryByFirstMarker(s.Path)
    /\ (/\ Contains(s.Path, "10-atoms")
        /\ ~Contains(s.Path, "99-drafts")
        /\ ~Contains(s.Path, "00-foundations")) => s.OrganismType = "atom"
    /\ MarkersIn(s.Path) = {} => s.OrganismType = "draft"

\* Every file the walk found can be read.
AllReadable == \A i \in 1..Len(dTree.files) :
    Ignored(dTree.files[i].path) \/ dTree.files[i].readable

\* C14: every story found has the category of the first marker, in priority
\* order, that its path contains: "atom" for 10-atoms with no earlier marker,
\* "draft" for no marker at all; and a readable file with stories under a path
\* without markers does not fail discovery but yields draft stories.
C14_CategoryByFirstMarker ==
    /\ \A k \in 1..Len(dStories) : CategoryAsSpecified(dStories[k])
    /\ \A k \in 1..Len(dRet.stories) : CategoryAsSpecified(dRet.stories[k])
    /\ (dpc = "returned" /\ ~dTree.walkErr /\ AllReadable) =>
          /\ dRet.kind = "ok"
          /\ \A i \in 1..Len(dTree.files) :
                LET f == dTree.files[i] IN
                (~Ignored(f.path) /\ f.matches > 0 /\ MarkersIn(f.path) = {}) =>
                    \E k \in 1..Len(dRet.stories) :
                        /\ dRet.stories[k].Path = f.path
                        /\ dRet.stories[k].OrganismType = "draft"

\* A story under 20-molecules/10-atoms came back as an atom.
C14_Witness ==
    /\ dpc = "returned"
    /\ dRet.kind = "ok"
    /\ \E k \in 1..Len(dRet.stories) :
          /\ dRet.stories[k].Path[1] = <<"20-molecules">>
          /\ dRet.stories[k].Path[2] = <<"10-atoms">>
          /\ dRet.stories[k].OrganismType = "atom"

\* Files under a 40-templates directory never reach the classification: the
\* walk drops them, because their path contains the ignore entry "temp".
C14_TemplatePathsAreIgnored ==
    /\ \A k \in 1..Len(dStories) : dStories[k].OrganismType # "template"
    /\ \A i \in 1..Len(dPaths) : ~Contains(dPaths[i].path, "40-templates")

----------------------------------------------------------------------------
\* C15: discovery is all-or-nothing

RECURSIVE StoriesIn(_)
StoriesIn(fs) ==
    IF fs = <<>> THEN 0
    ELSE (IF Ignored(Head(fs).path) THEN 0 ELSE Head(fs).matches) + StoriesIn(Tail(fs))

\* C15: when a file that is not ignored cannot be read, GetAllStories returns
\* an error and no stories, whatever it had found before; what it returns is
\* either an error and nothing or the stories of every file it walked.
C15_AllOrNothing ==
    dpc = "returned" =>
       /\ ~AllReadable => (dRet.kind = "err" /\ dRet.stories = <<>>)
       /\ dRet.kind = "err" => dRet.stories = <<>>
       /\ dRet.kind = "ok" => (AllReadable /\ Len(dRet.stories) = StoriesIn(dTree.files))

\* A read failed after stories had been found in an earlier file.
C15_Witness ==
    /\ dpc = "returned"
    /\ dRet.kind = "err"
    /\ ~dTree.walkErr
    /\ dStories # <<>>

====
